---- MODULE Spec2Model ----
(***************************************************************************)
(* Model of src/peg.rs of the ion shell: the PEG grammar that turns script *)
(* text into pipelines of jobs (parse), and the glob expansion of a job's  *)
(* arguments (Job::expand_globs, Pipeline::expand_globs).                  *)
(*                                                                         *)
(* A string is a sequence of one-character strings.  A position is the     *)
(* 1-based index of the next character to read, so Len(s) + 1 is the end   *)
(* of the input.  A grammar rule without a value returns the position      *)
(* after its match, or Failed; a rule with a value returns a record        *)
(* [pos, val] whose pos is Failed when the rule does not match.            *)
(* Option<String> is a sequence of length at most one: None is << >> and   *)
(* Some(x) is << x >>.                                                     *)
(***************************************************************************)
EXTENDS Integers, Sequences, FiniteSets, TLC

VARIABLES code, result, pc, shape, before, globs, call

vars == <<code, result, pc, shape, before, globs, call>>

----------------------------------------------------------------------------
(* The characters the grammar gives a meaning to.                           *)

SPACE == " "
TAB == "\t"
CR == "\r"
LF == "\n"
DQUOTE == "\""
SQUOTE == "'"
BACKSLASH == "\\"

(* The position returned by a rule that does not match. *)
Failed == 0

NoMatch == [pos |-> Failed, val |-> << >>]

Matched(p, v) == [pos |-> p, val |-> v]

None == << >>

Some(x) == << x >>

At(s, p, chars) == p <= Len(s) /\ s[p] \in chars

NotAt(s, p, chars) == p <= Len(s) /\ s[p] \notin chars

(* e? for a rule without a value: the position is kept when e fails. *)
Opt(r, p) == IF r # Failed THEN r ELSE p

(* [chars]* : the position after the longest run of characters of the class. *)
RECURSIVE StarIn(_, _, _)
StarIn(s, p, chars) ==
    IF At(s, p, chars) THEN StarIn(s, p + 1, chars) ELSE p

(* [^chars]* *)
RECURSIVE StarNotIn(_, _, _)
StarNotIn(s, p, chars) ==
    IF NotAt(s, p, chars) THEN StarNotIn(s, p + 1, chars) ELSE p

----------------------------------------------------------------------------
(* The lexical rules.  A rule that goes on after a sub-rule hands the       *)
(* sub-rule's result to an operator that holds the rest of the rule.        *)

(* e+ for a run of characters from p to e *)
plus(p, e) == IF e > p THEN e ELSE Failed

(* e+ { match_str } *)
match_str(s, p, e) == IF e > p THEN Matched(e, SubSeq(s, p, e - 1)) ELSE NoMatch

(* a / b *)
choice(a, b) == IF a.pos # Failed THEN a ELSE b

(* e? for a rule with a value *)
optional(r, p) ==
    IF r.pos # Failed THEN Matched(r.pos, Some(r.val)) ELSE Matched(p, None)

(* The end of e ++ sep and e+ : at least one e. *)
list_end(p, acc) == IF acc = << >> THEN NoMatch ELSE Matched(p, acc)

newline(s, p) == IF At(s, p, {CR, LF}) THEN p + 1 ELSE Failed

(* job_ending without its newline alternatives *)
job_ending_semicolon_only(s, p) == IF At(s, p, {";"}) THEN p + 1 ELSE Failed

job_ending(s, p) ==
    IF At(s, p, {";"}) THEN p + 1
    ELSE IF newline(s, p) # Failed THEN newline(s, p)
    ELSE newline(s, p)

whitespace(s, p) == plus(p, StarIn(s, p, {SPACE, TAB}))

whitespace_opt(s, p) == Opt(whitespace(s, p), p)

comment(s, p) ==
    IF At(s, p, {"#"}) THEN StarNotIn(s, p + 1, {CR, LF}) ELSE Failed

comment_opt(s, p) == Opt(comment(s, p), p)

(* unused without its second alternative, the comment that no whitespace   *)
(* comes before.                                                            *)
unused_comment_indented_only(s, p, w) ==
    IF w # Failed THEN comment_opt(s, w) ELSE Failed

(* unused after its whitespace w was tried at p *)
unused_comment(s, p, w) ==
    IF w # Failed THEN comment_opt(s, w) ELSE comment(s, p)

unused(s, p) == unused_comment(s, p, whitespace(s, p))

(* unused* *)
RECURSIVE unused_star(_, _)
unused_more(s, p, u) == IF u = Failed THEN p ELSE unused_star(s, u)

unused_star(s, p) == unused_more(s, p, unused(s, p))

(* The closing quote q after the content w of a quoted word. *)
closing_quote(s, w, q) ==
    IF w.pos # Failed /\ At(s, w.pos, {q})
    THEN Matched(w.pos + 1, w.val) ELSE NoMatch

_double_quoted_word(s, p) == match_str(s, p, StarNotIn(s, p, {DQUOTE}))

double_quoted_word(s, p) ==
    IF At(s, p, {DQUOTE})
    THEN closing_quote(s, _double_quoted_word(s, p + 1), DQUOTE)
    ELSE NoMatch

_single_quoted_word(s, p) == match_str(s, p, StarNotIn(s, p, {SQUOTE}))

single_quoted_word(s, p) ==
    IF At(s, p, {SQUOTE})
    THEN closing_quote(s, _single_quoted_word(s, p + 1), SQUOTE)
    ELSE NoMatch

(* The characters that end a bare word. *)
WordEnd == {SPACE, TAB, CR, LF, "#", ";", "&", "|", "<", ">"}

bare_word(s, p) == match_str(s, p, StarNotIn(s, p, WordEnd))

(* word trying the bare word before the quoted ones *)
word_bare_first(s, p) ==
    choice(bare_word(s, p),
           choice(double_quoted_word(s, p), single_quoted_word(s, p)))

word(s, p) ==
    choice(double_quoted_word(s, p),
           choice(single_quoted_word(s, p), bare_word(s, p)))

----------------------------------------------------------------------------
(* The data the parser builds.                                              *)

JobNew(args, background) ==
    [command |-> args[1], args |-> args, background |-> background]

PipelineNew(js, stdin, stdout) ==
    [jobs |-> js, stdin_file |-> stdin, stdout_file |-> stdout]

----------------------------------------------------------------------------
(* The structural rules.                                                    *)

(* background_token without its second alternative *)
spaced_background_token_never(s, w) == Failed

(* [&] after the whitespace w *)
spaced_background_token(s, w) ==
    IF w # Failed /\ At(s, w, {"&"}) THEN w + 1 ELSE Failed

background_token(s, p) ==
    IF At(s, p, {"&"}) THEN p + 1
    ELSE spaced_background_token(s, whitespace(s, p))

(* [|] whitespace? at a *)
pipe_token(s, a) == IF At(s, a, {"|"}) THEN whitespace_opt(s, a + 1) ELSE Failed

pipeline_sep(s, p) == pipe_token(s, whitespace_opt(s, p))

redirect_stdin(s, p) ==
    IF At(s, p, {"<"}) THEN word(s, whitespace_opt(s, p + 1)) ELSE NoMatch

redirect_stdout(s, p) ==
    IF At(s, p, {">"}) THEN word(s, whitespace_opt(s, p + 1)) ELSE NoMatch

(* { (Some(stdin), stdout) } : the value is the pair << stdin, stdout >>. *)
stdin_first(i, o) == Matched(o.pos, <<Some(i.val), o.val>>)

(* The second alternative giving its files in the order it read them. *)
stdout_first_as_read(o, i) == Matched(i.pos, <<Some(o.val), i.val>>)

(* { (stdin, Some(stdout)) } *)
stdout_first(o, i) == Matched(i.pos, <<i.val, Some(o.val)>>)

(* The second and third alternatives of redirection, o being               *)
(* redirect_stdout at p.                                                    *)
redirection_stdout(s, p, o) ==
    IF o.pos # Failed
    THEN stdout_first(o, optional(redirect_stdin(s, whitespace_opt(s, o.pos)),
                                  whitespace_opt(s, o.pos)))
    ELSE Matched(p, <<None, None>>)

(* The alternatives of redirection, i being redirect_stdin at p. *)
redirection_stdin(s, p, i) ==
    IF i.pos # Failed
    THEN stdin_first(i, optional(redirect_stdout(s, whitespace_opt(s, i.pos)),
                                 whitespace_opt(s, i.pos)))
    ELSE redirection_stdout(s, p, redirect_stdout(s, p))

redirection(s, p) == redirection_stdin(s, p, redirect_stdin(s, p))

(* word at q, when the separator before it matched *)
word_at(s, q) == IF q = Failed THEN NoMatch ELSE word(s, q)

(* word ++ whitespace, after the words of acc were read up to p: a          *)
(* separator that no word follows is given back.                            *)
RECURSIVE words(_, _, _)
words_more(s, p, acc, w) ==
    IF w.pos = Failed THEN list_end(p, acc)
    ELSE words(s, w.pos, Append(acc, w.val))

words(s, p, acc) ==
    words_more(s, p, acc,
               word_at(s, IF acc = << >> THEN p ELSE whitespace(s, p)))

(* The action of the rule job, after its words a and its marker b. *)
job_action(a, b) == Matched(Opt(b, a.pos), JobNew(a.val, b # Failed))

job_background(s, a) ==
    IF a.pos = Failed THEN NoMatch
    ELSE job_action(a, background_token(s, a.pos))

job(s, p) == job_background(s, words(s, p, << >>))

job_at(s, q) == IF q = Failed THEN NoMatch ELSE job(s, q)

(* job ++ pipeline_sep *)
RECURSIVE jobs(_, _, _)
jobs_more(s, p, acc, j) ==
    IF j.pos = Failed THEN list_end(p, acc)
    ELSE jobs(s, j.pos, Append(acc, j.val))

jobs(s, p, acc) ==
    jobs_more(s, p, acc,
              job_at(s, IF acc = << >> THEN p ELSE pipeline_sep(s, p)))

(* The end of the rule pipeline, after its jobs js and its redirection r:   *)
(* whitespace? comment? and the action of the rule.                         *)
pipeline_action(s, js, r) ==
    Matched(comment_opt(s, whitespace_opt(s, r.pos)),
            PipelineNew(js.val, r.val[1], r.val[2]))

(* The rule pipeline after its jobs js: whitespace? redirection and the rest. *)
pipeline_redirection(s, js) ==
    IF js.pos = Failed THEN NoMatch
    ELSE pipeline_action(s, js, redirection(s, whitespace_opt(s, js.pos)))

pipeline(s, p) == pipeline_redirection(s, jobs(s, whitespace_opt(s, p), << >>))

pipeline_at(s, q) == IF q = Failed THEN NoMatch ELSE pipeline(s, q)

(* (unused* newline)* *)
RECURSIVE leading_lines(_, _)
leading_more(s, p, n) == IF n = Failed THEN p ELSE leading_lines(s, n)

leading_lines(s, p) == leading_more(s, p, newline(s, unused_star(s, p)))

(* (newline unused* )* *)
RECURSIVE trailing_lines(_, _)
trailing_more(s, p, n) ==
    IF n = Failed THEN p ELSE trailing_lines(s, unused_star(s, n))

trailing_lines(s, p) == trailing_more(s, p, newline(s, p))

(* job_ending+ , n of them read up to p *)
RECURSIVE job_endings(_, _, _)
job_endings_more(s, p, n, e) ==
    IF e = Failed THEN (IF n = 0 THEN Failed ELSE p)
    ELSE job_endings(s, e, n + 1)

job_endings(s, p, n) == job_endings_more(s, p, n, job_ending(s, p))

(* (job_ending+ unused* )+ , n of them read up to p *)
RECURSIVE pipelines_sep(_, _, _)
pipelines_sep_more(s, p, n, e) ==
    IF e = Failed THEN (IF n = 0 THEN Failed ELSE p)
    ELSE pipelines_sep(s, unused_star(s, e), n + 1)

pipelines_sep(s, p, n) == pipelines_sep_more(s, p, n, job_endings(s, p, 0))

(* pipeline ++ ((job_ending+ unused* )+) *)
RECURSIVE pipeline_list(_, _, _)
pipeline_list_more(s, p, acc, l) ==
    IF l.pos = Failed THEN list_end(p, acc)
    ELSE pipeline_list(s, l.pos, Append(acc, l.val))

pipeline_list(s, p, acc) ==
    pipeline_list_more(s, p, acc,
        pipeline_at(s, IF acc = << >> THEN p ELSE pipelines_sep(s, p, 0)))

(* (unused* ) ** newline { vec![] } *)
RECURSIVE blank_lines(_, _)
blank_lines_more(s, u, n) == IF n = Failed THEN u ELSE blank_lines(s, n)

blank_lines_newline(s, u) == blank_lines_more(s, u, newline(s, u))

blank_lines(s, p) == blank_lines_newline(s, unused_star(s, p))

(* The alternatives of the rule pipelines at p, l being the pipelines of    *)
(* the first one.                                                           *)
pipelines_alternatives(s, p, l) ==
    IF l.pos # Failed THEN Matched(trailing_lines(s, l.pos), l.val)
    ELSE Matched(blank_lines(s, p), << >>)

(* The rule pipelines at position p. *)
parse_pipelines(s, p) ==
    pipelines_alternatives(s, p, pipeline_list(s, leading_lines(s, p), << >>))

(* The public function taking what the rule matched of a prefix. *)
whole_input_prefix(s, r) == IF r.pos # Failed THEN Some(r.val) ELSE None

(* Ok only when the rule matched the whole input.  The value is an option:  *)
(* None is Err.                                                             *)
whole_input(s, r) == IF r.pos = Len(s) + 1 THEN Some(r.val) ELSE None

(* The public function of the rule pipelines. *)
pipelines(s) == whole_input(s, parse_pipelines(s, 1))

unwrap_or(o, default) == IF o # None THEN o[1] ELSE default

parse(s) == unwrap_or(pipelines(s), << >>)

----------------------------------------------------------------------------
(* The glob service and the expansion of a job's arguments.                 *)

(* A unit of a path that is not valid Unicode, and the character that       *)
(* to_string_lossy puts in its place.                                       *)
InvalidUnit == "<FF>"

ReplacementChar == "<U+FFFD>"

to_string_lossy(path) ==
    [k \in 1..Len(path) |->
        IF path[k] = InvalidUnit THEN ReplacementChar ELSE path[k]]

(* What glob(pattern) answers: Err(PatternError), or Ok(paths) where paths  *)
(* yields items that are Ok(path) or Err(GlobError).  NotCalled stands at   *)
(* the arguments the service is not asked about.                            *)
GlobErr == [called |-> TRUE, ok |-> FALSE, items |-> << >>]

GlobOk(items) == [called |-> TRUE, ok |-> TRUE, items |-> items]

NotCalled == [called |-> FALSE, ok |-> FALSE, items |-> << >>]

ItemOk(path) == [ok |-> TRUE, path |-> path]

ItemErr == [ok |-> FALSE, path |-> << >>]

is_glob(arg) == \E k \in 1..Len(arg) : arg[k] \in {"?", "*", "["}

(* expanded.filter_map(Result::ok), each path made a String *)
RECURSIVE pushed_paths(_)
pushed_paths(items) ==
    IF items = << >> THEN << >>
    ELSE (IF Head(items).ok THEN <<to_string_lossy(Head(items).path)>>
          ELSE << >>) \o pushed_paths(Tail(items))

(* The loop pushing the argument whether or not it pushed paths. *)
expand_arg_always_pushed(arg, answer) ==
    (IF is_glob(arg) /\ answer.ok THEN pushed_paths(answer.items) ELSE << >>)
    \o <<arg>>

(* What one turn of the loop of Job::expand_globs pushes on new_args. *)
expand_arg(arg, answer) ==
    LET pushed == IF is_glob(arg) /\ answer.ok
                  THEN pushed_paths(answer.items) ELSE << >>
    IN  IF pushed # << >> THEN pushed ELSE <<arg>>

RECURSIVE new_args(_, _, _)
new_args(args, answers, k) ==
    IF k > Len(args) THEN << >>
    ELSE expand_arg(args[k], answers[k]) \o new_args(args, answers, k + 1)

(* Job::expand_globs: answers[k] is what the service answers for args[k]. *)
JobExpandGlobs(j, answers) ==
    [j EXCEPT !.args = new_args(j.args, answers, 1)]

(* Pipeline::expand_globs collecting the expanded jobs last to first. *)
PipelineExpandGlobsReversed(pl, answers) ==
    [pl EXCEPT !.jobs =
        [n \in 1..Len(pl.jobs) |->
            JobExpandGlobs(pl.jobs[Len(pl.jobs) + 1 - n],
                           answers[Len(pl.jobs) + 1 - n])]]

(* Pipeline::expand_globs: answers[n] are the answers for job n. *)
PipelineExpandGlobs(pl, answers) ==
    [pl EXCEPT !.jobs =
        [n \in 1..Len(pl.jobs) |-> JobExpandGlobs(pl.jobs[n], answers[n])]]

----------------------------------------------------------------------------
(* The bounds of the model.                                                 *)

(* The longest input text drawn character by character. *)
MaxLen == 4

(* The most arguments of a job that is built directly. *)
MaxBuiltArgs == 2

(* The most jobs of a pipeline that is written out. *)
MaxJobs == 2

(* The most arguments a job is let grow to by glob expansion. *)
MaxArgs == 3

(* The longest content of a quoted word that is written out. *)
MaxQuoted == 2

(* The most groups of a script that is written out. *)
MaxGroups == 3

Alphabet ==
    {"a", "*", SPACE, TAB, CR, LF, ";", "#", "&", "|", "<", ">", DQUOTE, SQUOTE}

Strings(chars, n) == UNION {[1..k -> chars] : k \in 0..n}

Inputs == Strings(Alphabet, MaxLen)

(* The paths the glob service may yield: a plain one, and one that holds a  *)
(* glob character and a unit that is not valid Unicode.                     *)
PlainPath == <<"b">>

OddPath == <<"*", InvalidUnit>>

(* The answers of the glob service to one pattern: an error, no item, an    *)
(* item that is an error, one path, two paths, and paths around an error.   *)
GlobAnswers ==
    {GlobErr,
     GlobOk(<< >>),
     GlobOk(<<ItemErr>>),
     GlobOk(<<ItemOk(PlainPath)>>),
     GlobOk(<<ItemOk(PlainPath), ItemOk(OddPath)>>),
     GlobOk(<<ItemOk(OddPath), ItemErr, ItemOk(PlainPath)>>)}

(* The answers of the service to one call of Job::expand_globs: one for     *)
(* each argument the job asks about.                                        *)
RECURSIVE AnswersFor(_)
AnswersFor(args) ==
    IF args = << >> THEN {<< >>}
    ELSE {<<a>> \o rest :
            a \in (IF is_glob(Head(args)) THEN GlobAnswers ELSE {NotCalled}),
            rest \in AnswersFor(Tail(args))}

(* The answers to one call of Pipeline::expand_globs: those of each job. *)
RECURSIVE PipelineAnswersFor(_)
PipelineAnswersFor(js) ==
    IF js = << >> THEN {<< >>}
    ELSE {<<a>> \o rest :
            a \in AnswersFor(Head(js).args),
            rest \in PipelineAnswersFor(Tail(js))}

----------------------------------------------------------------------------
(* Scripts that are written out from a description of their structure.      *)
(* A word is written bare or between quotes; a job is words joined by a gap *)
(* of whitespace, with or without a background marker; a pipeline group is  *)
(* jobs joined by a pipe, with or without redirections and a tail; a script *)
(* is groups joined by job-ending characters.                               *)

RECURSIVE Flatten(_)
Flatten(ss) == IF ss = << >> THEN << >> ELSE Head(ss) \o Flatten(Tail(ss))

RECURSIVE Join(_, _)
Join(ss, sep) ==
    IF ss = << >> THEN << >>
    ELSE IF Len(ss) = 1 THEN ss[1]
    ELSE ss[1] \o sep \o Join(Tail(ss), sep)

Bare(text) == [quote |-> "", text |-> text]

Quoted(q, text) == [quote |-> q, text |-> text]

WordText(w) ==
    IF w.quote = "" THEN w.text ELSE <<w.quote>> \o w.text \o <<w.quote>>

JobShape(ws, gap, marker) == [words |-> ws, gap |-> gap, marker |-> marker]

JobText(j) ==
    Join([k \in 1..Len(j.words) |-> WordText(j.words[k])], j.gap) \o j.marker

NoRedir == [order |-> "none", in |-> Bare(<<"a">>), out |-> Bare(<<"a">>)]

Redir(order, in, out) == [order |-> order, in |-> in, out |-> out]

RedirText(r) ==
    CASE r.order = "none" -> << >>
      [] r.order = "io" ->
            <<SPACE, "<", SPACE>> \o WordText(r.in)
            \o <<SPACE, ">", SPACE>> \o WordText(r.out)
      [] r.order = "oi" ->
            <<SPACE, ">", SPACE>> \o WordText(r.out)
            \o <<SPACE, "<", SPACE>> \o WordText(r.in)

PipelineGroup(lead, js, pipe, redir, tail) ==
    [kind |-> "pipeline", lead |-> lead, jobs |-> js, pipe |-> pipe,
     redir |-> redir, tail |-> tail]

BlankGroup(text) == [kind |-> "blank", text |-> text]

GroupText(g) ==
    IF g.kind = "blank" THEN g.text
    ELSE g.lead
         \o Join([n \in 1..Len(g.jobs) |-> JobText(g.jobs[n])], g.pipe)
         \o RedirText(g.redir) \o g.tail

Script(groups, seps) == [kind |-> "script", groups |-> groups, seps |-> seps]

RECURSIVE ScriptText(_, _)
ScriptText(groups, seps) ==
    IF groups = << >> THEN << >>
    ELSE IF Len(groups) = 1 THEN GroupText(groups[1])
    ELSE GroupText(groups[1]) \o <<seps[1]>>
         \o ScriptText(Tail(groups), Tail(seps))

Render(sh) == ScriptText(sh.groups, sh.seps)

(* What the description says the script means. *)
JobMeaning(j) ==
    LET args == [k \in 1..Len(j.words) |-> j.words[k].text] IN
    [command |-> args[1], args |-> args, background |-> j.marker # << >>]

GroupMeaning(g) ==
    [jobs |-> [n \in 1..Len(g.jobs) |-> JobMeaning(g.jobs[n])],
     stdin_file |-> IF g.redir.order = "none" THEN None
                    ELSE Some(g.redir.in.text),
     stdout_file |-> IF g.redir.order = "none" THEN None
                     ELSE Some(g.redir.out.text)]

IsPipelineGroup(g) == g.kind = "pipeline"

RECURSIVE Meaning(_)
Meaning(groups) ==
    IF groups = << >> THEN << >>
    ELSE (IF IsPipelineGroup(Head(groups))
          THEN <<GroupMeaning(Head(groups))>> ELSE << >>)
         \o Meaning(Tail(groups))

(* The words, gaps, markers, pipes and groups the scripts are written with. *)
Wa == Bare(<<"a">>)

Wstar == Bare(<<"*">>)

Wmid == Bare(<<"a", SQUOTE, DQUOTE>>)

Wdq == Quoted(DQUOTE, <<"a", SPACE, SQUOTE>>)

Wsq == Quoted(SQUOTE, <<";", DQUOTE>>)

(* A bare word that begins with a quote character: rule word reads it by   *)
(* its third alternative when no matching quote follows in the text.        *)
Wopen == Bare(<<DQUOTE, "a">>)

Words == {Wa, Wstar, Wmid, Wdq, Wsq}

AllWords == Words \cup {Wopen}

Gaps == {<<SPACE>>, <<TAB, SPACE>>}

Markers == {<< >>, <<"&">>, <<SPACE, "&">>, <<TAB, SPACE, "&">>}

Pipes == {<<"|">>, <<SPACE, "|", TAB>>}

Seqs(S, n) == UNION {[1..k -> S] : k \in 1..n}

(* Jobs with and without a background marker, and the pipelines of them. *)
MarkedJobs ==
    {JobShape(ws, gap, m) :
        ws \in {<<Wa>>, <<Wa, Wmid>>}, gap \in Gaps, m \in Markers}

MarkedGroup(js, pipe) == PipelineGroup(<< >>, js, pipe, NoRedir, << >>)

(* Pipelines followed by both redirections, in either order. *)
RedirJobs ==
    {JobShape(ws, <<SPACE>>, m) :
        ws \in {<<Wa>>, <<Wsq, Wstar>>}, m \in {<< >>, <<"&">>, <<SPACE, "&">>}}

(* The same, and jobs with a word that begins with a quote character. *)
AllRedirJobs ==
    RedirJobs \cup {JobShape(<<Wa, Wopen>>, <<SPACE>>, m) : m \in {<< >>, <<"&">>}}

RedirGroup(js, order, in, out) ==
    PipelineGroup(<< >>, js, <<SPACE, "|", SPACE>>, Redir(order, in, out), << >>)

(* Jobs with a quoted word of any content, alone or among other words. *)
QuoteChars == Alphabet \cup {BACKSLASH}

QuotedWords ==
    {Quoted(q, text) :
        q \in {DQUOTE, SQUOTE},
        text \in Strings(QuoteChars, MaxQuoted) \ {<< >>}}

WellQuoted(w) == \A k \in 1..Len(w.text) : w.text[k] # w.quote

QuoteGroup(w, pre, post, gap) ==
    PipelineGroup(<< >>, <<JobShape(pre \o <<w>> \o post, gap, << >>)>>,
                  <<"|">>, NoRedir, << >>)

(* Scripts of pipeline groups and of blank and comment-only groups. *)
SomePipelineGroups ==
    {PipelineGroup(<< >>, <<JobShape(<<Wa>>, <<SPACE>>, << >>)>>,
                   <<"|">>, NoRedir, << >>),
     PipelineGroup(<<SPACE>>, <<JobShape(<<Wsq, Wa>>, <<SPACE>>, <<"&">>)>>,
                   <<"|">>, NoRedir, <<TAB>>),
     PipelineGroup(<< >>, <<JobShape(<<Wa>>, <<SPACE>>, << >>),
                            JobShape(<<Wa>>, <<SPACE>>, << >>)>>,
                   <<"|">>, Redir("oi", Wa, Wa), <<SPACE, "#", ";">>)}

SomeBlankGroups ==
    {BlankGroup(<< >>), BlankGroup(<<SPACE, TAB>>), BlankGroup(<<"#", "a", ";">>),
     BlankGroup(<<SPACE, "#">>)}

JobEndings == {";", CR, LF}

HasComment(g) ==
    LET text == GroupText(g) IN
    IF g.kind = "blank" THEN \E k \in 1..Len(text) : text[k] = "#"
    ELSE g.tail # << >> /\ g.tail[Len(g.tail)] # TAB

(* A job-ending character that follows a comment on its line is part of the *)
(* comment unless it is a line end.                                         *)
SplitsAsWritten(groups, seps) ==
    \A k \in 1..Len(seps) : HasComment(groups[k]) => seps[k] \in {CR, LF}

OneGroup(g) == Script(<<g>>, << >>)

(* Pipelines built with Pipeline::new from jobs built with Job::new: one    *)
(* job whose arguments are plain or hold any of the glob characters, or two *)
(* jobs whose arguments are plain or "*".                                   *)
BuiltJobs(written) ==
    {JobNew(args, background) :
        args \in Seqs(written, MaxBuiltArgs), background \in BOOLEAN}

BuiltPipelines ==
    {PipelineNew(js, stdin, stdout) :
        js \in {<<j>> : j \in BuiltJobs({<<"a">>, <<"*">>, <<"?">>, <<"[">>})}
              \cup {<<j, k>> : j \in BuiltJobs({<<"a">>, <<"*">>}),
                               k \in BuiltJobs({<<"a">>, <<"*">>})},
        stdin \in {None, Some(<<"a">>)}, stdout \in {None, Some(<<"*">>)}}

----------------------------------------------------------------------------
(* The state machine: a caller that parses a text and then expands globs.   *)
(* code is the text, result the Vec<Pipeline> the caller holds, pc where    *)
(* the caller is.  shape records how the text was written, before the       *)
(* result before the last expansion, globs the answers of the glob service  *)
(* to it and call which expansion it was.                                   *)

NoCall == [op |-> "none", i |-> 0, n |-> 0]

RawShape == [kind |-> "raw", groups |-> << >>, seps |-> << >>]

Fresh ==
    /\ result = << >>
    /\ pc = "start"
    /\ before = << >>
    /\ globs = << >>
    /\ call = NoCall

Parse ==
    /\ pc = "start"
    /\ result' = parse(code)
    /\ pc' = "parsed"
    /\ UNCHANGED <<code, shape, before, globs, call>>

(* The caller expands what parse or the constructors gave it, once. *)
Held == pc \in {"parsed", "built"}

ExpandJob ==
    /\ Held
    /\ \E i \in 1..Len(result) :
       \E n \in 1..Len(result[i].jobs) :
       \E answers \in AnswersFor(result[i].jobs[n].args) :
          LET j == JobExpandGlobs(result[i].jobs[n], answers) IN
          /\ Len(j.args) <= MaxArgs
          /\ result' = [result EXCEPT ![i].jobs[n] = j]
          /\ globs' = <<answers>>
          /\ call' = [op |-> "job", i |-> i, n |-> n]
    /\ before' = result
    /\ pc' = "expanded"
    /\ UNCHANGED <<code, shape>>

ExpandPipeline ==
    /\ Held
    /\ \E i \in 1..Len(result) :
       \E answers \in PipelineAnswersFor(result[i].jobs) :
          LET pl == PipelineExpandGlobs(result[i], answers) IN
          /\ \A n \in 1..Len(pl.jobs) : Len(pl.jobs[n].args) <= MaxArgs
          /\ result' = [result EXCEPT ![i] = pl]
          /\ globs' = answers
          /\ call' = [op |-> "pipeline", i |-> i, n |-> 0]
    /\ before' = result
    /\ pc' = "expanded"
    /\ UNCHANGED <<code, shape>>

(* Commands typed with few characters, parsed and then expanded. *)
CommandChars == {"a", "*", SPACE, ";", "|", "&"}

Init ==
    /\ code \in Strings(CommandChars, MaxLen)
    /\ shape = RawShape
    /\ Fresh

Next == Parse \/ ExpandJob \/ ExpandPipeline

Spec == Init /\ [][Next]_vars

(* Every text up to MaxLen, parsed. *)
InitText ==
    /\ code \in Inputs
    /\ shape = RawShape
    /\ Fresh

SpecText == InitText /\ [][Parse]_vars

(* Every script written from a description, parsed. *)
InitShape ==
    /\ \/ \E js \in Seqs(MarkedJobs, MaxJobs), pipe \in Pipes :
            shape = OneGroup(MarkedGroup(js, pipe))
       \/ \E js \in Seqs(RedirJobs, MaxJobs), order \in {"io", "oi"},
             in \in Words, out \in Words :
            shape = OneGroup(RedirGroup(js, order, in, out))
       \/ \E w \in QuotedWords, pre \in {<< >>, <<Wa>>},
             post \in {<< >>, <<Wmid>>}, gap \in Gaps :
            /\ WellQuoted(w)
            /\ shape = OneGroup(QuoteGroup(w, pre, post, gap))
       \/ \E k \in 1..MaxGroups :
          \E groups \in [1..k -> SomePipelineGroups \cup SomeBlankGroups],
             seps \in [1..(k - 1) -> JobEndings] :
            /\ SplitsAsWritten(groups, seps)
            /\ shape = Script(groups, seps)
    /\ code = Render(shape)
    /\ Fresh

SpecShape == InitShape /\ [][Parse]_vars

(* Every pipeline written with both redirections, of any words, parsed. *)
InitRedir ==
    /\ \E js \in Seqs(AllRedirJobs, MaxJobs), order \in {"io", "oi"},
          in \in AllWords, out \in AllWords :
            shape = OneGroup(RedirGroup(js, order, in, out))
    /\ code = Render(shape)
    /\ Fresh

SpecRedir == InitRedir /\ [][Parse]_vars

(* Every built pipeline, expanded. *)
InitGlob ==
    /\ code = << >>
    /\ shape = RawShape
    /\ \E pl \in BuiltPipelines : result = <<pl>>
    /\ pc = "built"
    /\ before = << >>
    /\ globs = << >>
    /\ call = NoCall

NextGlob == ExpandJob \/ ExpandPipeline

SpecGlob == InitGlob /\ [][NextGlob]_vars

----------------------------------------------------------------------------
(* Properties of parse on every text.                                       *)

MatchesWhole(s) == parse_pipelines(s, 1).pos = Len(s) + 1

(* C1: parse is all-or-nothing: when the rule pipelines does not match the  *)
(* whole of the input, parse returns the empty sequence, and not the        *)
(* pipelines of the prefix that the rule did match.                         *)
C1_AllOrNothing ==
    pc = "parsed" /\ ~MatchesWhole(code) => result = << >>

(* A valid pipeline followed by a remainder that does not parse: the rule   *)
(* matched a prefix with a pipeline in it, and parse returned nothing.      *)
C1_Witness ==
    /\ pc = "parsed"
    /\ ~MatchesWhole(code)
    /\ parse_pipelines(code, 1).pos > 1
    /\ parse_pipelines(code, 1).val # << >>
    /\ result = << >>

(* A text made only of spaces, tabs, comments and newline characters: a     *)
(* comment runs from a # to the end of its line.                            *)
RECURSIVE BlankFrom(_, _, _)
BlankFrom(s, p, inComment) ==
    IF p > Len(s) THEN TRUE
    ELSE IF s[p] \in {CR, LF} THEN BlankFrom(s, p + 1, FALSE)
    ELSE IF inComment \/ s[p] = "#" THEN BlankFrom(s, p + 1, TRUE)
    ELSE s[p] \in {SPACE, TAB} /\ BlankFrom(s, p + 1, FALSE)

IsBlank(s) == BlankFrom(s, 1, FALSE)

Has(s, chars) == \E k \in 1..Len(s) : s[k] \in chars

(* C9: a text made only of spaces, tabs, comments and newline characters,   *)
(* the empty text included, is matched whole by the rule pipelines with an  *)
(* empty result, and parse returns an empty sequence for it.                *)
C9_BlankScripts ==
    pc = "parsed" /\ IsBlank(code) =>
        /\ pipelines(code) = Some(<< >>)
        /\ result = << >>

(* A blank text with whitespace, a comment with text in it, and a newline. *)
C9_Witness ==
    /\ pc = "parsed"
    /\ IsBlank(code)
    /\ Has(code, {SPACE, TAB})
    /\ Has(code, {"#"})
    /\ Has(code, {";", "a", "|"})
    /\ Has(code, {CR, LF})
    /\ pipelines(code) = Some(<< >>)
    /\ result = << >>

----------------------------------------------------------------------------
(* Properties of parse on scripts written from a description.               *)

Written == pc = "parsed" /\ shape.kind = "script"

(* A script of one pipeline group. *)
OnePipeline ==
    Written /\ Len(shape.groups) = 1 /\ IsPipelineGroup(shape.groups[1])

PipelineIndexes(groups) ==
    {k \in 1..Len(groups) : IsPipelineGroup(groups[k])}

(* Every job-ending character before the first pipeline group and after     *)
(* the last one is a line end.                                              *)
LineEndsAtEdges(groups, seps) ==
    \A k \in 1..Len(seps) :
        (\/ \A n \in PipelineIndexes(groups) : k < n
         \/ \A n \in PipelineIndexes(groups) : k >= n)
        => seps[k] \in {CR, LF}

(* C2 as stated: a script of k pipeline groups and any number of blank or   *)
(* comment-only groups, split at job-ending characters, parses to exactly   *)
(* its k pipelines, in source order.                                        *)
C2_PipelineCount_AsStated ==
    Written =>
        /\ Len(result) = Cardinality(PipelineIndexes(shape.groups))
        /\ result = Meaning(shape.groups)

(* C2 amended: the same, when every job-ending character before the first   *)
(* pipeline group and after the last one is a line end (CR or LF), or when  *)
(* the script has no pipeline group.                                        *)
C2_PipelineCount ==
    Written /\ (\/ PipelineIndexes(shape.groups) = {}
                \/ LineEndsAtEdges(shape.groups, shape.seps)) =>
        /\ Len(result) = Cardinality(PipelineIndexes(shape.groups))
        /\ result = Meaning(shape.groups)

(* Two pipelines with a blank group between them that semicolons set off. *)
C2_Witness ==
    /\ Written
    /\ Len(shape.groups) = 3
    /\ IsPipelineGroup(shape.groups[1])
    /\ ~IsPipelineGroup(shape.groups[2])
    /\ IsPipelineGroup(shape.groups[3])
    /\ shape.seps = <<";", ";">>
    /\ Len(result) = 2
    /\ result = Meaning(shape.groups)

(* The description sh with its two redirections written in the other order. *)
OtherOrder(sh) ==
    [sh EXCEPT !.groups[1].redir.order = IF @ = "io" THEN "oi" ELSE "io"]

BothRedirected ==
    OnePipeline /\ shape.groups[1].redir.order \in {"io", "oi"}

(* What parse gives for both orders of the redirections of the script. *)
SameInBothOrders ==
    /\ Len(result) = 1
    /\ result[1].jobs = GroupMeaning(shape.groups[1]).jobs
    /\ result[1].stdin_file = Some(shape.groups[1].redir.in.text)
    /\ result[1].stdout_file = Some(shape.groups[1].redir.out.text)
    /\ parse(Render(OtherOrder(shape))) = result

(* C3 as stated: a pipeline P followed by " < A > B" and P followed by      *)
(* " > B < A" both parse, for all words A and B, to the same single         *)
(* pipeline: the jobs of P, stdin_file Some(A) and stdout_file Some(B).     *)
C3_RedirectionOrder_AsStated == BothRedirected => SameInBothOrders

(* A bare word that begins with a quote character. *)
OpensQuote(w) == w.quote = "" /\ w.text[1] \in {DQUOTE, SQUOTE}

(* No word of the pipeline and neither file name begins a quote it does not *)
(* close.                                                                   *)
NoOpenQuote(g) ==
    /\ \A n \in 1..Len(g.jobs) :
       \A k \in 1..Len(g.jobs[n].words) : ~OpensQuote(g.jobs[n].words[k])
    /\ ~OpensQuote(g.redir.in)
    /\ ~OpensQuote(g.redir.out)

(* C3 amended: when A, B and the words of P are quoted words or bare words  *)
(* that do not begin with a quote character, P followed by " < A > B" and   *)
(* P followed by " > B < A" both parse, to the same single pipeline: the    *)
(* jobs of P, stdin_file Some(A) and stdout_file Some(B).                   *)
C3_RedirectionOrder ==
    BothRedirected /\ NoOpenQuote(shape.groups[1]) => SameInBothOrders

(* Two jobs, then the output file before the input file, the two differing. *)
C3_Witness ==
    /\ BothRedirected
    /\ shape.groups[1].redir.order = "oi"
    /\ Len(shape.groups[1].jobs) = 2
    /\ shape.groups[1].redir.in = Wsq
    /\ shape.groups[1].redir.out = Wstar
    /\ Len(result) = 1
    /\ result[1].stdin_file = Some(Wsq.text)
    /\ result[1].stdout_file = Some(Wstar.text)

(* C4: an argument written as a quoted word, set off from its neighbours by *)
(* whitespace, is exactly one argument of its job, whose value is exactly   *)
(* the characters between the quotes, whatever they are.                    *)
C4_QuotingVerbatim ==
    OnePipeline =>
        /\ Len(result) = 1
        /\ Len(result[1].jobs) = Len(shape.groups[1].jobs)
        /\ \A n \in 1..Len(shape.groups[1].jobs) :
              LET ws == shape.groups[1].jobs[n].words IN
              /\ Len(result[1].jobs[n].args) = Len(ws)
              /\ \A k \in 1..Len(ws) :
                    ws[k].quote # "" => result[1].jobs[n].args[k] = ws[k].text

(* A single-quoted word between two other words, holding a newline and the  *)
(* other quote character.                                                   *)
C4_Witness ==
    /\ OnePipeline
    /\ Len(shape.groups[1].jobs[1].words) = 3
    /\ shape.groups[1].jobs[1].words[2] = Quoted(SQUOTE, <<LF, DQUOTE>>)
    /\ Len(result) = 1
    /\ Len(result[1].jobs[1].args) = 3
    /\ result[1].jobs[1].args[2] = <<LF, DQUOTE>>

(* The description sh with the background markers of its jobs taken away. *)
Unmarked(sh) ==
    [sh EXCEPT !.groups[1].jobs =
        [n \in 1..Len(@) |-> [@[n] EXCEPT !.marker = << >>]]]

(* C5: a job has background = TRUE exactly when an & follows its last word, *)
(* at once or after whitespace; its args are the same with and without the  *)
(* marker; in a pipeline of several jobs only the job with the & is marked. *)
C5_BackgroundMarker ==
    OnePipeline =>
        /\ Len(result) = 1
        /\ Len(result[1].jobs) = Len(shape.groups[1].jobs)
        /\ Len(parse(Render(Unmarked(shape)))) = 1
        /\ \A n \in 1..Len(shape.groups[1].jobs) :
              LET j == shape.groups[1].jobs[n]
                  plain == parse(Render(Unmarked(shape)))[1].jobs[n]
              IN  /\ result[1].jobs[n].background = (j.marker # << >>)
                  /\ result[1].jobs[n].args = JobMeaning(j).args
                  /\ plain.args = result[1].jobs[n].args
                  /\ ~plain.background

(* Two jobs of two words: the first with an & after whitespace, the second  *)
(* with none.                                                               *)
C5_Witness ==
    /\ OnePipeline
    /\ Len(shape.groups[1].jobs) = 2
    /\ Len(shape.groups[1].jobs[1].words) = 2
    /\ shape.groups[1].jobs[1].marker = <<SPACE, "&">>
    /\ shape.groups[1].jobs[2].marker = << >>
    /\ Len(result) = 1
    /\ result[1].jobs[1].background
    /\ ~result[1].jobs[2].background

----------------------------------------------------------------------------
(* Properties of glob expansion.                                            *)

Expanded == pc = "expanded"

(* The jobs the last call expanded: their indexes in pipeline call.i. *)
ExpandedJobs ==
    IF call.op = "job" THEN {call.n} ELSE 1..Len(before[call.i].jobs)

(* The answers of the glob service for job n in the last call. *)
AnswersOf(n) == IF call.op = "job" THEN globs[1] ELSE globs[n]

(* C6 as stated: Job::expand_globs leaves args[0], the command word,        *)
(* unchanged and in first position, whatever the glob service answers.      *)
C6_CommandWordKept ==
    Expanded =>
        \A n \in ExpandedJobs :
            result[call.i].jobs[n].args[1] = before[call.i].jobs[n].args[1]

(* C8 as stated: in every job that parse produced, also after expand_globs, *)
(* args is not empty and command equals args[0].                            *)
C8_JobInvariant ==
    pc \in {"parsed", "expanded"} =>
        \A i \in 1..Len(result) :
        \A n \in 1..Len(result[i].jobs) :
            /\ result[i].jobs[n].args # << >>
            /\ result[i].jobs[n].command = result[i].jobs[n].args[1]

(* The paths the service matched, in the order it yielded them, as strings. *)
RECURSIVE MatchedPaths(_)
MatchedPaths(items) ==
    IF items = << >> THEN << >>
    ELSE IF Head(items).ok
         THEN <<to_string_lossy(Head(items).path)>> \o MatchedPaths(Tail(items))
         ELSE MatchedPaths(Tail(items))

(* What the claim puts in the place of an argument. *)
Replacement(arg, answer) ==
    IF /\ \E k \in 1..Len(arg) : arg[k] \in {"?", "*", "["}
       /\ answer.called /\ answer.ok
       /\ MatchedPaths(answer.items) # << >>
    THEN MatchedPaths(answer.items)
    ELSE <<arg>>

(* The replacements of the arguments from index k on, in order. *)
RECURSIVE Replacements(_, _, _)
Replacements(args, answers, k) ==
    IF k > Len(args) THEN << >>
    ELSE Replacement(args[k], answers[k]) \o Replacements(args, answers, k + 1)

Suffix(s, n) == SubSeq(s, Len(s) - n + 1, Len(s))

(* C7: expand_globs puts, in the place of every argument after the command  *)
(* word, its matched paths in the order the service yielded them when it is *)
(* a glob pattern with at least one match, and the argument itself, once,   *)
(* in every other case: after what the command word became, the arguments   *)
(* are these replacements in the order of the arguments they replace.       *)
C7_InPlaceReplacement ==
    Expanded =>
        \A n \in ExpandedJobs :
            LET old == before[call.i].jobs[n].args
                new == result[call.i].jobs[n].args
                rest == Replacements(old, AnswersOf(n), 2)
            IN  /\ Len(new) > Len(rest)
                /\ Suffix(new, Len(rest)) = rest

(* A job whose second argument is a pattern that matched two paths, the     *)
(* argument count growing by one.                                           *)
C7_Witness ==
    /\ Expanded
    /\ call.op = "job"
    /\ before[call.i].jobs[call.n].args = <<<<"a">>, <<"*">>>>
    /\ globs[1][2] = GlobOk(<<ItemOk(OddPath), ItemErr, ItemOk(PlainPath)>>)
    /\ result[call.i].jobs[call.n].args =
          <<<<"a">>, <<"*", ReplacementChar>>, <<"b">>>>

(* C10: Pipeline::expand_globs changes nothing but the args of its jobs:    *)
(* the number and order of the jobs, the command and the background flag of *)
(* each, and stdin_file and stdout_file stay as they were, as do the other  *)
(* pipelines.                                                               *)
C10_Frame ==
    Expanded /\ call.op = "pipeline" =>
        /\ Len(result) = Len(before)
        /\ \A i \in 1..Len(before) : i # call.i => result[i] = before[i]
        /\ result[call.i].stdin_file = before[call.i].stdin_file
        /\ result[call.i].stdout_file = before[call.i].stdout_file
        /\ Len(result[call.i].jobs) = Len(before[call.i].jobs)
        /\ \A n \in 1..Len(before[call.i].jobs) :
              /\ result[call.i].jobs[n].command = before[call.i].jobs[n].command
              /\ result[call.i].jobs[n].background
                 = before[call.i].jobs[n].background

(* A pipeline of two jobs that differ in command and background flag, with  *)
(* both files set, whose arguments the call changed.                        *)
C10_Witness ==
    /\ Expanded
    /\ call.op = "pipeline"
    /\ Len(before[1].jobs) = 2
    /\ before[1].jobs[1].command # before[1].jobs[2].command
    /\ before[1].jobs[1].background # before[1].jobs[2].background
    /\ before[1].stdin_file # None
    /\ before[1].stdout_file # None
    /\ result[1].jobs[2].args # before[1].jobs[2].args
    /\ result[1].jobs[1].command = before[1].jobs[1].command
    /\ result[1].stdin_file = before[1].stdin_file

====
